---- MODULE Spec2Model ----
(***************************************************************************)
(* Model of src-tauri/src/main.rs of signstamp: the JSON collection store  *)
(* (signatures.json, snippets.json), the export to the downloads           *)
(* directory with its collision-safe naming, the file-name sanitizer and   *)
(* the file-open event bridge.                                             *)
(*                                                                         *)
(* Text (file names, paths, file contents) is a sequence of one-character  *)
(* strings, so that formatting, parsing and path splitting are computed.   *)
(***************************************************************************)
EXTENDS Naturals, Integers, Sequences, FiniteSets, TLC

VARIABLES
    raw,            \* sanitizer: the untrusted name handed to sanitize_file_name
    sanitized,      \* sanitizer: its result, None before the call
    fs,             \* the regular files on disk: a function from path to content
    dirs,           \* the directories on disk
    pathsResolve,   \* whether the platform resolves app_data_dir / download_dir
    reqName,        \* naming: the file name handed to next_available_path
    chosen,         \* naming: the path it returned, None before the call
    exportLog,      \* export: the save_pdf_to_downloads calls so far and their results
    racers,         \* export race: each concurrent save_pdf_to_downloads call's position
    focus,          \* store: the collection a run works on, "signatures" or "snippets"
    loadResult,     \* store: what the last load returned; cleared by a save
    saveResult,     \* store: what the last save returned
    lastSaved,      \* store: the collection of the last save, known while the file is its
    savers,         \* store race: each concurrent save call's position
    platform,       \* bridge: "macos" when the build has the Opened arm, else "other"
    launchArgs,     \* bridge: std::env::args_os(), the program name first
    initial_paths,  \* bridge: the paths main() keeps for the Ready event
    handed,         \* bridge: every path handed to emit_open_pdf, with its source
    notifications,  \* bridge: every app.emit("open-pdf") call, with its outcome
    stderr,         \* bridge: the paths whose failed emit was logged
    events          \* bridge: the run events handled so far

sanVars == <<raw, sanitized>>
diskVars == <<fs, dirs, pathsResolve>>
nameVars == <<reqName, chosen>>
exportVars == <<exportLog>>
raceVars == <<racers>>
storeVars == <<focus, loadResult, saveResult, lastSaved>>
saverVars == <<savers>>
bridgeVars == <<platform, launchArgs, initial_paths, handed, notifications, stderr, events>>
vars == <<raw, sanitized, fs, dirs, pathsResolve, reqName, chosen, exportLog,
          racers, focus, loadResult, saveResult, lastSaved, savers, platform, launchArgs,
          initial_paths, handed, notifications, stderr, events>>

\* The absent value of an Option whose present values are sequences.
None == <<"None">>

\* The status of a call that has not returned.
NoStatus == "NoStatus"

----------------------------------------------------------------------------
(* Text helpers.                                                           *)

SEP == "/"
DOT == "."

\* A byte sequence that is not valid UTF-8 (an OsString can hold one).
NonUtf8 == "<ff>"

\* char::to_lowercase / u8::to_ascii_lowercase on the letters the model uses.
ToLower(c) ==
    CASE c = "P" -> "p"
      [] c = "D" -> "d"
      [] c = "F" -> "f"
      [] c = "T" -> "t"
      [] c = "X" -> "x"
      [] OTHER -> c

to_lowercase(s) == [i \in 1..Len(s) |-> ToLower(s[i])]

ends_with(s, suffix) ==
    /\ Len(s) >= Len(suffix)
    /\ SubSeq(s, Len(s) - Len(suffix) + 1, Len(s)) = suffix

eq_ignore_ascii_case(a, b) == to_lowercase(a) = to_lowercase(b)

\* OsStr::to_str: None when the bytes are not valid UTF-8.
to_str(s) == IF \E i \in 1..Len(s) : s[i] = NonUtf8 THEN None ELSE s

\* The positions of character c in s.
Positions(s, c) == {i \in 1..Len(s) : s[i] = c}

Max(S) == CHOOSE x \in S : \A y \in S : y <= x

Min(S) == CHOOSE x \in S : \A y \in S : x <= y

\* The decimal digits of n, as format!("{idx}") prints them.
Digit(d) == <<"0", "1", "2", "3", "4", "5", "6", "7", "8", "9">>[d + 1]

RECURSIVE Decimal(_)
Decimal(n) == IF n < 10 THEN <<Digit(n)>> ELSE Decimal(n \div 10) \o <<Digit(n % 10)>>

----------------------------------------------------------------------------
(* std::path on a Unix build: components, file_name, file_stem, extension, *)
(* join.                                                                   *)

\* The text between separators: "a//b/" gives <<"a", "", "b", "">>.
RECURSIVE Segments(_)
Segments(p) ==
    IF Positions(p, SEP) = {} THEN <<p>>
    ELSE LET i == Min(Positions(p, SEP))
         IN  <<SubSeq(p, 1, i - 1)>> \o Segments(SubSeq(p, i + 1, Len(p)))

has_root(p) == Len(p) >= 1 /\ p[1] = SEP

\* Path::components: a root, a leading "." of a relative path, "..", and the
\* normal names; empty segments and every other "." are skipped.
Components(p) ==
    LET segs == Segments(p)
        named == SelectSeq(segs, LAMBDA s : s # <<>> /\ s # <<DOT>>)
        comp(s) == IF s = <<DOT, DOT>> THEN [kind |-> "ParentDir", name |-> s]
                   ELSE [kind |-> "Normal", name |-> s]
        body == [i \in 1..Len(named) |-> comp(named[i])]
        head == IF has_root(p) THEN <<[kind |-> "RootDir", name |-> <<SEP>>]>>
                ELSE IF segs[1] = <<DOT>> THEN <<[kind |-> "CurDir", name |-> <<DOT>>]>>
                ELSE <<>>
    IN  head \o body

\* Path::file_name: the last component when it is a normal name.
file_name(p) ==
    LET cs == Components(p)
    IN  IF cs # <<>> /\ cs[Len(cs)].kind = "Normal" THEN cs[Len(cs)].name ELSE None

\* rsplit_file_at_dot: (before, after) around the last dot of a file name.
SplitAtDot(f) ==
    IF f = <<DOT, DOT>> \/ Positions(f, DOT) = {} THEN [before |-> f, after |-> None]
    ELSE LET i == Max(Positions(f, DOT))
         IN  IF i = 1 THEN [before |-> f, after |-> None]
             ELSE [before |-> SubSeq(f, 1, i - 1), after |-> SubSeq(f, i + 1, Len(f))]

file_stem(p) == IF file_name(p) = None THEN None ELSE SplitAtDot(file_name(p)).before

extension(p) == IF file_name(p) = None THEN None ELSE SplitAtDot(file_name(p)).after

\* PathBuf::join: an absolute right-hand side replaces the left-hand side.
join(dir, name) ==
    IF has_root(name) THEN name
    ELSE IF dir # <<>> /\ dir[Len(dir)] = SEP THEN dir \o name
    ELSE dir \o <<SEP>> \o name

----------------------------------------------------------------------------
(* sanitize_file_name                                                      *)

DOT_PDF == <<".", "p", "d", "f">>

DEFAULT_NAME ==
    <<"d", "o", "c", "u", "m", "e", "n", "t", "-", "s", "i", "g", "n", "e", "d">> \o DOT_PDF

\* A sanitizer that compares the suffix case-sensitively.
sanitize_case_sensitive(name) ==
    LET fname == file_name(name)
        rawName == IF fname = None \/ to_str(fname) = None THEN DEFAULT_NAME ELSE fname
    IN  IF ends_with(rawName, DOT_PDF) THEN rawName ELSE rawName \o DOT_PDF

sanitize_file_name(name) ==
    LET fname == file_name(name)
        rawName == IF fname = None \/ to_str(fname) = None THEN DEFAULT_NAME ELSE fname
    IN  IF ends_with(to_lowercase(rawName), DOT_PDF) THEN rawName ELSE rawName \o DOT_PDF

----------------------------------------------------------------------------
(* Bounds and inputs.                                                      *)

\* Longest enumerated raw name.
MaxRawLen == 5

RawAlphabet == {"/", ".", "a", "p", "d", "f", "F"}

RECURSIVE SeqsUpTo(_, _)
SeqsUpTo(S, n) ==
    IF n = 0 THEN {<<>>}
    ELSE LET shorter == SeqsUpTo(S, n - 1)
         IN  shorter \cup {Append(s, c) : s \in {t \in shorter : Len(t) = n - 1}, c \in S}

TRAVERSAL == <<".", ".", "/", ".", ".", "/", "e", "t", "c", "/", "p", "a", "s", "s", "w", "d">>
PASSWD_PDF == <<"p", "a", "s", "s", "w", "d">> \o DOT_PDF
REPORT_UPPER == <<"r", "e", "p", "o", "r", "t", ".", "P", "D", "F">>

RawNames == SeqsUpTo(RawAlphabet, MaxRawLen) \cup {TRAVERSAL, REPORT_UPPER}

----------------------------------------------------------------------------
(* Specification of the sanitizer: the input is drawn, the function is     *)
(* applied once.                                                           *)

\* The parts of the state a specification does not use.
IdleSanitize == raw = <<>> /\ sanitized = None
IdleDisk == fs = <<>> /\ dirs = {} /\ pathsResolve = TRUE
IdleNaming == reqName = <<>> /\ chosen = None
IdleExport == exportLog = <<>>
IdleRace == racers = <<>>
NoLoad == [kind |-> "none", status |-> NoStatus, value |-> <<>>]
Unknown == [known |-> FALSE, coll |-> <<>>]
IdleStore ==
    /\ focus = "none"
    /\ loadResult = NoLoad
    /\ saveResult = NoStatus
    /\ lastSaved = Unknown
    /\ savers = <<>>
IdleBridge ==
    /\ platform = "other"
    /\ launchArgs = <<>>
    /\ initial_paths = <<>>
    /\ handed = <<>>
    /\ notifications = <<>>
    /\ stderr = <<>>
    /\ events = <<>>

InitSanitize ==
    /\ raw \in RawNames
    /\ sanitized = None
    /\ IdleDisk /\ IdleNaming /\ IdleExport /\ IdleRace /\ IdleStore /\ IdleBridge

Sanitize ==
    /\ sanitized = None
    /\ sanitized' = sanitize_file_name(raw)
    /\ UNCHANGED <<raw, diskVars, nameVars, exportVars, raceVars, storeVars, saverVars, bridgeVars>>

NextSanitize == Sanitize

SpecSanitize == InitSanitize /\ [][NextSanitize]_vars

----------------------------------------------------------------------------
(* The file system: Path::exists, std::fs::write.                          *)

DOWNLOADS == <<"/", "D">>

\* The path without its trailing separators.
RECURSIVE StripTrailing(_)
StripTrailing(p) ==
    IF Len(p) > 1 /\ p[Len(p)] = SEP THEN StripTrailing(SubSeq(p, 1, Len(p) - 1)) ELSE p

\* Path::exists: a file or a directory is there; a path with a trailing
\* separator names a directory only.
exists(p) ==
    IF p # <<>> /\ p[Len(p)] = SEP THEN StripTrailing(p) \in dirs
    ELSE p \in DOMAIN fs \/ p \in dirs

\* The file system `files` with `path` holding `content`.
Put(files, path, content) ==
    [q \in DOMAIN files \cup {path} |-> IF q = path THEN content ELSE files[q]]

StrictPrefixes(b) == {SubSeq(b, 1, n) : n \in 0..(Len(b) - 1)}

\* Path::parent of a path with a final component: the text before it.
parent(p) ==
    IF Positions(p, SEP) = {} THEN <<>>
    ELSE LET i == Max(Positions(p, SEP)) IN IF i = 1 THEN <<SEP>> ELSE SubSeq(p, 1, i - 1)

\* A failing write_all is cut after at most MaxCut bytes, or before the last.
MaxCut == 1

Cuts(b) == {q \in StrictPrefixes(b) : Len(q) <= MaxCut \/ Len(q) = Len(b) - 1}

\* An open that creates the file and keeps what an existing file holds.
file_create_keep(files, path) ==
    IF path \in DOMAIN files THEN files ELSE Put(files, path, <<>>)

\* File::create: the file is created empty, or truncated when it exists.
file_create(files, path) == Put(files, path, <<>>)

\* A write through a handle just opened: at offset 0, over what the file
\* holds, the rest of a longer file staying.
write_at_start(files, path, bytes) ==
    Put(files, path, bytes \o SubSeq(files[path], Len(bytes) + 1, Len(files[path])))

\* Whether File::create can open the path: the parent directory is there and
\* the path is no directory.
can_create(ds, path) == parent(path) \in ds /\ path \notin ds

\* std::fs::write(path, bytes) = File::create then write_all, on the
\* directories ds. The outcomes: written in full; the open fails and nothing
\* changes (always so when can_create is false); write_all fails part-way
\* and leaves a strict prefix.
fs_write(ds, files, path, bytes) ==
    IF ~can_create(ds, path)
    THEN {[files |-> files, ok |-> FALSE]}
    ELSE {[files |-> write_at_start(file_create(files, path), path, bytes), ok |-> TRUE],
          [files |-> files, ok |-> FALSE]}
         \cup {[files |-> write_at_start(file_create(files, path), path, q), ok |-> FALSE] :
                 q \in Cuts(bytes)}

\* std::fs::create_dir_all: nothing to do for a directory that is there;
\* otherwise it is created, or the call fails (always so when a regular file
\* has the path).
create_dir_all(ds, files, dir) ==
    IF dir \in ds THEN {[dirs |-> ds, ok |-> TRUE]}
    ELSE IF dir \in DOMAIN files THEN {[dirs |-> ds, ok |-> FALSE]}
    ELSE {[dirs |-> ds \cup {dir}, ok |-> TRUE], [dirs |-> ds, ok |-> FALSE]}

----------------------------------------------------------------------------
(* next_available_path                                                     *)

\* The exclusive end of `for idx in 1..1000`.
IDX_END == 1000

DEFAULT_STEM == <<"d", "o", "c", "u", "m", "e", "n", "t", "-", "s", "i", "g", "n", "e", "d">>
DEFAULT_EXT == <<"p", "d", "f">>

\* format!("{stem} ({idx}).{ext}")
Candidate(stem, ext, idx) == stem \o <<" ", "(">> \o Decimal(idx) \o <<")", ".">> \o ext

\* format!("{stem}-export.{ext}")
Fallback(stem, ext) == stem \o <<"-", "e", "x", "p", "o", "r", "t", ".">> \o ext

StemOf(fname) ==
    IF file_stem(fname) = None \/ to_str(file_stem(fname)) = None
    THEN DEFAULT_STEM ELSE file_stem(fname)

ExtOf(fname) ==
    IF extension(fname) = None \/ to_str(extension(fname)) = None
    THEN DEFAULT_EXT ELSE extension(fname)

\* A probe that starts numbering at 2.
next_available_path_from2(dir, fname) ==
    LET initial == join(dir, fname)
        stem == StemOf(fname)
        ext == ExtOf(fname)
        free(idx) == ~exists(join(dir, Candidate(stem, ext, idx)))
        range == 2..(IDX_END - 1)
    IN  IF ~exists(initial) THEN initial
        ELSE IF \E idx \in range : free(idx)
        THEN join(dir, Candidate(stem, ext,
                CHOOSE idx \in range : free(idx) /\ \A j \in 2..(idx - 1) : ~free(j)))
        ELSE join(dir, Fallback(stem, ext))

\* A probe that never looks at the disk.
next_available_path_blind(dir, fname) == join(dir, fname)

\* The loop returns at the first idx whose candidate does not exist: the
\* least such idx.
next_available_path(dir, fname) ==
    LET initial == join(dir, fname)
        stem == StemOf(fname)
        ext == ExtOf(fname)
        free(idx) == ~exists(join(dir, Candidate(stem, ext, idx)))
        range == 1..(IDX_END - 1)
    IN  IF ~exists(initial) THEN initial
        ELSE IF \E idx \in range : free(idx)
        THEN join(dir, Candidate(stem, ext,
                CHOOSE idx \in range : free(idx) /\ \A j \in 1..(idx - 1) : ~free(j)))
        ELSE join(dir, Fallback(stem, ext))

----------------------------------------------------------------------------
(* Inputs of the naming and export specifications.                         *)

DOC_PDF == <<"d", "o", "c">> \o DOT_PDF
DOC_UPPER == <<"d", "o", "c", ".", "P", "D", "F">>
DOC_1_PDF == <<"d", "o", "c", " ", "(", "1", ")">> \o DOT_PDF
DOC_2_PDF == <<"d", "o", "c", " ", "(", "2", ")">> \o DOT_PDF
DOC_EXPORT_PDF == <<"d", "o", "c", "-", "e", "x", "p", "o", "r", "t">> \o DOT_PDF

\* The raw names the UI asks to export under.
ExportRawNames == {DOC_PDF, <<"d", "o", "c">>, DOT_PDF, DOC_UPPER, DOC_EXPORT_PDF}

ExportNames == {sanitize_file_name(r) : r \in ExportRawNames}

OLD == <<"o", "l", "d">>

PdfBytes == {<<"1">>, <<"2">>}

\* Most numbered candidates present in a sparsely filled directory.
MaxTaken == 3

\* The numbered candidates of fname with idx in K, as paths of the downloads
\* directory.
Numbered(fname, K) == {join(DOWNLOADS, Candidate(StemOf(fname), ExtOf(fname), k)) : k \in K}

FallbackPath(fname) == join(DOWNLOADS, Fallback(StemOf(fname), ExtOf(fname)))

\* The candidate sets of a directory: the first k numbered names, the same
\* with one missing, and the directory that holds 998 or all 999 of them.
TakenSets ==
    {1..k : k \in 0..MaxTaken}
    \cup {(1..k) \ {h} : k \in 1..MaxTaken, h \in 1..MaxTaken}
    \cup {1..(IDX_END - 2), 1..(IDX_END - 1)}
    \cup {(1..(IDX_END - 1)) \ {h} : h \in {1, 500}}

\* The downloads directories the model starts from, around the name fname.
Directories(fname) ==
    {Numbered(fname, K) \cup base \cup fb :
        K \in TakenSets,
        base \in {{}, {join(DOWNLOADS, fname)}},
        fb \in {{}, {FallbackPath(fname)}}}

----------------------------------------------------------------------------
(* Specification of the naming function: the directory and the name are    *)
(* drawn, the function is applied once.                                    *)

InitNaming ==
    /\ reqName \in ExportNames
    /\ \E paths \in Directories(reqName) : fs = [p \in paths |-> OLD]
    /\ dirs = {DOWNLOADS}
    /\ pathsResolve = TRUE
    /\ chosen = None
    /\ IdleSanitize /\ IdleExport /\ IdleRace /\ IdleStore /\ IdleBridge

NextAvailablePath ==
    /\ chosen = None
    /\ chosen' = next_available_path(DOWNLOADS, reqName)
    /\ UNCHANGED <<reqName, diskVars, sanVars, exportVars, raceVars, storeVars, saverVars, bridgeVars>>

NextNaming == NextAvailablePath

SpecNaming == InitNaming /\ [][NextNaming]_vars

----------------------------------------------------------------------------
(* save_pdf_to_downloads, run without interruption.                        *)

\* Most exports in one run.
MaxExports == 2

\* The raw names and the directories of the export specification.
SaveRawNames == {<<"d", "o", "c">>, DOC_EXPORT_PDF}

SaveDirectories ==
    {Numbered(DOC_PDF, K) \cup {join(DOWNLOADS, DOC_PDF)} \cup fb :
        K \in {{}, {1}, 1..(IDX_END - 2), 1..(IDX_END - 1)},
        fb \in {{}, {FallbackPath(DOC_PDF)}}}
    \cup {{}}

\* Whether dir/fname or one of its numbered candidates is free on `files`.
FreeNameExists(files, fname) ==
    LET stem == StemOf(fname)
        ext == ExtOf(fname)
    IN  \/ join(DOWNLOADS, fname) \notin DOMAIN files
        \/ \E k \in 1..(IDX_END - 1) :
              join(DOWNLOADS, Candidate(stem, ext, k)) \notin DOMAIN files

\* One call, from the resolution of the downloads directory to the result.
\* The log entry keeps the arguments, the result and whether the probe had
\* a free name to return.
SavePdfToDownloads ==
    \E wanted \in SaveRawNames :
        /\ Len(exportLog) < MaxExports
        /\ IF ~pathsResolve
           THEN /\ \E bytes \in PdfBytes :
                     exportLog' = Append(exportLog,
                        [file_name |-> wanted, bytes |-> bytes,
                         status |-> "DirectoryUnavailable", path |-> None, free |-> TRUE])
                /\ UNCHANGED fs
           ELSE LET base_name == sanitize_file_name(wanted)
                    target_path == next_available_path(DOWNLOADS, base_name)
                    free == FreeNameExists(fs, base_name)
                IN  \E bytes \in PdfBytes :
                      \E out \in fs_write(dirs, fs, target_path, bytes) :
                        /\ fs' = out.files
                        /\ exportLog' = Append(exportLog,
                                [file_name |-> wanted, bytes |-> bytes,
                                 status |-> IF out.ok THEN "Ok" ELSE "IoError",
                                 path |-> target_path,
                                 free |-> free])
        /\ UNCHANGED <<dirs, pathsResolve, sanVars, nameVars, raceVars, storeVars, saverVars, bridgeVars>>

InitExport ==
    /\ \/ pathsResolve = TRUE /\ \E paths \in SaveDirectories : fs = [p \in paths |-> OLD]
       \/ pathsResolve = FALSE /\ fs = [p \in {join(DOWNLOADS, DOC_PDF)} |-> OLD]
    /\ dirs = {DOWNLOADS}
    /\ exportLog = <<>>
    /\ IdleSanitize /\ IdleNaming /\ IdleRace /\ IdleStore /\ IdleBridge

NextExport == SavePdfToDownloads

SpecExport == InitExport /\ [][NextExport]_vars

----------------------------------------------------------------------------
(* save_pdf_to_downloads called by several callers at once: the probe     *)
(* (lines 52-58) and the write (line 60) are separate steps.               *)

Exporters == {"e1", "e2"}

RaceDirectories ==
    {{}, {join(DOWNLOADS, DOC_PDF)},
     Numbered(DOC_PDF, 1..(IDX_END - 1)) \cup {join(DOWNLOADS, DOC_PDF), FallbackPath(DOC_PDF)}}

IdleRacer ==
    [pc |-> "idle", bytes |-> None, target |-> None, free |-> TRUE,
     disturbed |-> FALSE, overwrote |-> FALSE, status |-> NoStatus]

\* Lines 52-58: resolve the downloads directory, sanitize, probe.
ExportCheck(e) ==
    /\ racers[e].pc = "idle"
    /\ \E bytes \in PdfBytes, wanted \in SaveRawNames :
         IF ~pathsResolve
         THEN racers' = [racers EXCEPT ![e] =
                  [@ EXCEPT !.pc = "done", !.bytes = bytes, !.status = "DirectoryUnavailable"]]
         ELSE LET base_name == sanitize_file_name(wanted)
              IN  racers' = [racers EXCEPT ![e] =
                      [@ EXCEPT !.pc = "checked", !.bytes = bytes,
                                !.target = next_available_path(DOWNLOADS, base_name),
                                !.free = FreeNameExists(fs, base_name)]]
    /\ UNCHANGED <<diskVars, sanVars, nameVars, exportVars, storeVars, saverVars, bridgeVars>>

\* Lines 60-63: write the bytes at the path the probe returned. A caller
\* still between its probe and its write is disturbed by the change.
ExportWrite(e) ==
    /\ racers[e].pc = "checked"
    /\ \E out \in fs_write(dirs, fs, racers[e].target, racers[e].bytes) :
         /\ fs' = out.files
         /\ racers' = [x \in Exporters |->
                IF x = e
                THEN [racers[e] EXCEPT !.pc = "done",
                                       !.status = IF out.ok THEN "Ok" ELSE "IoError",
                                       !.overwrote = (racers[e].target \in DOMAIN fs
                                                      /\ out.files # fs)]
                ELSE IF racers[x].pc = "checked" /\ out.files # fs
                THEN [racers[x] EXCEPT !.disturbed = TRUE]
                ELSE racers[x]]
    /\ UNCHANGED <<dirs, pathsResolve, sanVars, nameVars, exportVars, storeVars, saverVars, bridgeVars>>

InitExportRace ==
    /\ \/ pathsResolve = TRUE /\ \E paths \in RaceDirectories : fs = [p \in paths |-> OLD]
       \/ pathsResolve = FALSE /\ fs = [p \in {join(DOWNLOADS, DOC_PDF)} |-> OLD]
    /\ dirs = {DOWNLOADS}
    /\ racers = [e \in Exporters |-> IdleRacer]
    /\ IdleSanitize /\ IdleNaming /\ IdleExport /\ IdleStore /\ IdleBridge

NextExportRace == \E e \in Exporters : ExportCheck(e) \/ ExportWrite(e)

SpecExportRace == InitExportRace /\ [][NextExportRace]_vars

----------------------------------------------------------------------------
(* serde_json: to_vec and from_slice for Vec<String> and                   *)
(* Vec<StoredSignature> (serde(rename_all = "camelCase")).                 *)

QUOTE == "\""
BACKSLASH == "\\"
LF == "<lf>"

DigitChars == {"0", "1", "2", "3", "4", "5", "6", "7", "8", "9"}

DigitValue(c) == CHOOSE d \in 0..9 : Digit(d) = c

\* u8::MAX and u32::MAX as decimal numerals: the u32 fields are kept as
\* numerals, the program doing no arithmetic on them.
U8_MAX == <<"2", "5", "5">>
U32_MAX == <<"4", "2", "9", "4", "9", "6", "7", "2", "9", "5">>

\* a <= b for numerals without leading zeros.
NumeralLeq(a, b) ==
    \/ Len(a) < Len(b)
    \/ /\ Len(a) = Len(b)
       /\ \/ a = b
          \/ LET i == Min({k \in 1..Len(a) : a[k] # b[k]})
             IN  DigitValue(a[i]) < DigitValue(b[i])

RECURSIVE NumeralValue(_)
NumeralValue(a) ==
    IF a = <<>> THEN 0 ELSE NumeralValue(SubSeq(a, 1, Len(a) - 1)) * 10 + DigitValue(a[Len(a)])

RECURSIVE Concat(_)
Concat(parts) == IF parts = <<>> THEN <<>> ELSE Head(parts) \o Concat(Tail(parts))

\* The parts with a comma between each two.
RECURSIVE Separated(_)
Separated(parts) ==
    IF parts = <<>> THEN <<>>
    ELSE IF Len(parts) = 1 THEN parts[1]
    ELSE parts[1] \o <<",">> \o Separated(Tail(parts))

EscapeChar(c) ==
    IF c = QUOTE THEN <<BACKSLASH, QUOTE>>
    ELSE IF c = BACKSLASH THEN <<BACKSLASH, BACKSLASH>>
    ELSE IF c = LF THEN <<BACKSLASH, "n">>
    ELSE <<c>>

EncodeString(str) ==
    <<QUOTE>> \o Concat([i \in 1..Len(str) |-> EscapeChar(str[i])]) \o <<QUOTE>>

EncodeArray(parts) == <<"[">> \o Separated(parts) \o <<"]">>

EncodeBytes(bytes) == EncodeArray([i \in 1..Len(bytes) |-> Decimal(bytes[i])])

KEY_ID == <<"i", "d">>
KEY_NAME == <<"n", "a", "m", "e">>
KEY_MIME == <<"m", "i", "m", "e">>
KEY_BYTES == <<"b", "y", "t", "e", "s">>
KEY_NATURAL_W == <<"n", "a", "t", "u", "r", "a", "l", "W">>
KEY_NATURAL_H == <<"n", "a", "t", "u", "r", "a", "l", "H">>

\* The fields of StoredSignature in declaration order, under their JSON names.
SignatureKeys == <<KEY_ID, KEY_NAME, KEY_MIME, KEY_BYTES, KEY_NATURAL_W, KEY_NATURAL_H>>

Member(key, value) == EncodeString(key) \o <<":">> \o value

EncodeSignature(g) ==
    <<"{">>
    \o Separated(<<Member(KEY_ID, EncodeString(g.id)),
                   Member(KEY_NAME, EncodeString(g.name)),
                   Member(KEY_MIME, EncodeString(g.mime)),
                   Member(KEY_BYTES, EncodeBytes(g.bytes)),
                   Member(KEY_NATURAL_W, g.natural_w),
                   Member(KEY_NATURAL_H, g.natural_h)>>)
    \o <<"}">>

\* serde_json::to_vec of a collection of the given kind.
to_vec(kind, coll) ==
    IF kind = "snippets"
    THEN EncodeArray([i \in 1..Len(coll) |-> EncodeString(coll[i])])
    ELSE EncodeArray([i \in 1..Len(coll) |-> EncodeSignature(coll[i])])

\* The parser: each step returns whether it succeeded, the value read and
\* the index after it. A value is [t, v]: a string, a number, an array of
\* values, an object as a sequence of <<key, value>>, or a literal.
ParseFail == [ok |-> FALSE, val |-> None, next |-> 0]

Parsed(t, v, next) == [ok |-> TRUE, val |-> [t |-> t, v |-> v], next |-> next]

Whitespace == {" ", LF}

RECURSIVE SkipWs(_, _)
SkipWs(s, i) == IF i <= Len(s) /\ s[i] \in Whitespace THEN SkipWs(s, i + 1) ELSE i

HasAt(s, i, word) == i + Len(word) - 1 <= Len(s) /\ SubSeq(s, i, i + Len(word) - 1) = word

\* The characters after an opening quote, up to the closing one.
RECURSIVE ParseStringBody(_, _, _)
ParseStringBody(s, i, acc) ==
    IF i > Len(s) THEN ParseFail
    ELSE IF s[i] = QUOTE THEN Parsed("str", acc, i + 1)
    ELSE IF s[i] = LF THEN ParseFail
    ELSE IF s[i] = BACKSLASH
    THEN IF i + 1 > Len(s) THEN ParseFail
         ELSE IF s[i + 1] \in {QUOTE, BACKSLASH, "/"}
         THEN ParseStringBody(s, i + 2, Append(acc, s[i + 1]))
         ELSE IF s[i + 1] = "n" THEN ParseStringBody(s, i + 2, Append(acc, LF))
         ELSE ParseFail
    ELSE ParseStringBody(s, i + 1, Append(acc, s[i]))

RECURSIVE ParseDigits(_, _, _)
ParseDigits(s, i, acc) ==
    IF i <= Len(s) /\ s[i] \in DigitChars
    THEN ParseDigits(s, i + 1, Append(acc, s[i]))
    ELSE [value |-> acc, next |-> i]

\* An unsigned integer, as its numeral: a leading zero stands alone; a
\* fraction or an exponent makes a float, which no field of the two
\* collections accepts.
ParseNumber(s, i) ==
    LET d == IF s[i] = "0" THEN [value |-> <<"0">>, next |-> i + 1]
             ELSE ParseDigits(s, i, <<>>)
    IN  IF d.next <= Len(s) /\ s[d.next] \in DigitChars \cup {".", "e", "E"} THEN ParseFail
        ELSE Parsed("num", d.value, d.next)

RECURSIVE ParseValue(_, _)
RECURSIVE ParseElements(_, _, _)
RECURSIVE ParseMembers(_, _, _)

ParseValue(s, i) ==
    LET j == SkipWs(s, i)
    IN  IF j > Len(s) THEN ParseFail
        ELSE IF s[j] = "["
        THEN LET k == SkipWs(s, j + 1)
             IN  IF k <= Len(s) /\ s[k] = "]" THEN Parsed("arr", <<>>, k + 1)
                 ELSE ParseElements(s, j + 1, <<>>)
        ELSE IF s[j] = "{"
        THEN LET k == SkipWs(s, j + 1)
             IN  IF k <= Len(s) /\ s[k] = "}" THEN Parsed("obj", <<>>, k + 1)
                 ELSE ParseMembers(s, j + 1, <<>>)
        ELSE IF s[j] = QUOTE THEN ParseStringBody(s, j + 1, <<>>)
        ELSE IF s[j] \in DigitChars THEN ParseNumber(s, j)
        ELSE IF HasAt(s, j, <<"n", "u", "l", "l">>) THEN Parsed("null", <<>>, j + 4)
        ELSE IF HasAt(s, j, <<"t", "r", "u", "e">>) THEN Parsed("bool", <<>>, j + 4)
        ELSE IF HasAt(s, j, <<"f", "a", "l", "s", "e">>) THEN Parsed("bool", <<>>, j + 5)
        ELSE ParseFail

\* The elements of an array after "[" or ",", up to "]".
ParseElements(s, i, acc) ==
    LET r == ParseValue(s, i)
        k == SkipWs(s, r.next)
    IN  IF ~r.ok \/ k > Len(s) THEN ParseFail
        ELSE IF s[k] = "," THEN ParseElements(s, k + 1, Append(acc, r.val))
        ELSE IF s[k] = "]" THEN Parsed("arr", Append(acc, r.val), k + 1)
        ELSE ParseFail

\* The members of an object after "{" or ",", up to "}".
ParseMembers(s, i, acc) ==
    LET j == SkipWs(s, i)
        key == IF j <= Len(s) /\ s[j] = QUOTE THEN ParseStringBody(s, j + 1, <<>>) ELSE ParseFail
        c == SkipWs(s, key.next)
        r == IF key.ok /\ c <= Len(s) /\ s[c] = ":" THEN ParseValue(s, c + 1) ELSE ParseFail
        k == SkipWs(s, r.next)
    IN  IF ~r.ok \/ k > Len(s) THEN ParseFail
        ELSE IF s[k] = "," THEN ParseMembers(s, k + 1, Append(acc, <<key.val.v, r.val>>))
        ELSE IF s[k] = "}" THEN Parsed("obj", Append(acc, <<key.val.v, r.val>>), k + 1)
        ELSE ParseFail

DecodeError == [status |-> "DecodeError", value |-> <<>>]

Decoded(value) == [status |-> "Ok", value |-> value]

IsStr(x) == x.t = "str"

IsUint(x, max) == x.t = "num" /\ NumeralLeq(x.v, max)

IsByteArray(x) == x.t = "arr" /\ \A i \in 1..Len(x.v) : IsUint(x.v[i], U8_MAX)

\* Whether the value x fits the field under key.
FieldFits(key, x) ==
    IF key \in {KEY_ID, KEY_NAME, KEY_MIME} THEN IsStr(x)
    ELSE IF key = KEY_BYTES THEN IsByteArray(x)
    ELSE IsUint(x, U32_MAX)

FieldValue(key, x) ==
    IF key = KEY_BYTES THEN [i \in 1..Len(x.v) |-> NumeralValue(x.v[i].v)] ELSE x.v

Signature(values) ==
    [id |-> values[1], name |-> values[2], mime |-> values[3],
     bytes |-> values[4], natural_w |-> values[5], natural_h |-> values[6]]

\* The derived Deserialize of StoredSignature: from an object, every field
\* once (unknown keys are skipped, a repeated or missing field is an
\* error); from an array, the six fields in order.
VisitSignature(x) ==
    IF x.t = "obj"
    THEN LET at(key) == {i \in 1..Len(x.v) : x.v[i][1] = key}
             one(key) == x.v[CHOOSE i \in at(key) : TRUE][2]
         IN  IF \A f \in 1..6 : Cardinality(at(SignatureKeys[f])) = 1
                                 /\ FieldFits(SignatureKeys[f], one(SignatureKeys[f]))
             THEN Decoded(Signature([f \in 1..6 |->
                        FieldValue(SignatureKeys[f], one(SignatureKeys[f]))]))
             ELSE DecodeError
    ELSE IF x.t = "arr" /\ Len(x.v) = 6
            /\ \A f \in 1..6 : FieldFits(SignatureKeys[f], x.v[f])
    THEN Decoded(Signature([f \in 1..6 |-> FieldValue(SignatureKeys[f], x.v[f])]))
    ELSE DecodeError

VisitElement(kind, x) ==
    IF kind = "snippets" THEN (IF IsStr(x) THEN Decoded(x.v) ELSE DecodeError)
    ELSE VisitSignature(x)

\* serde_json::from_slice::<Vec<_>>: one JSON value, then only whitespace;
\* the value an array whose every element deserializes.
from_slice(kind, bytes) ==
    LET r == ParseValue(bytes, 1)
    IN  IF ~r.ok \/ SkipWs(bytes, r.next) <= Len(bytes) \/ r.val.t # "arr" THEN DecodeError
        ELSE LET items == [i \in 1..Len(r.val.v) |-> VisitElement(kind, r.val.v[i])]
             IN  IF \E i \in 1..Len(items) : items[i].status # "Ok" THEN DecodeError
                 ELSE Decoded([i \in 1..Len(items) |-> items[i].value])

----------------------------------------------------------------------------
(* The collection store: signatures_path / snippets_path, load_signatures, *)
(* save_signatures, load_snippets, save_snippets.                          *)

Kinds == {"signatures", "snippets"}

APP_DATA == <<"/", "A">>

SIGNATURES_JSON ==
    <<"s", "i", "g", "n", "a", "t", "u", "r", "e", "s", ".", "j", "s", "o", "n">>

SNIPPETS_JSON == <<"s", "n", "i", "p", "p", "e", "t", "s", ".", "j", "s", "o", "n">>

\* signatures_path / snippets_path, when app_data_dir resolves.
collection_path(kind) ==
    join(APP_DATA, IF kind = "signatures" THEN SIGNATURES_JSON ELSE SNIPPETS_JSON)

Failed(status) == [status |-> status, value |-> <<>>]

\* A load without the exists() check: a missing file is a read error.
load_unchecked(kind) ==
    IF ~pathsResolve THEN Failed("DirectoryUnavailable")
    ELSE IF collection_path(kind) \notin DOMAIN fs THEN Failed("IoError")
    ELSE from_slice(kind, fs[collection_path(kind)])

\* A load that takes every unreadable content for the empty collection.
load_lenient(kind) ==
    IF ~pathsResolve THEN Failed("DirectoryUnavailable")
    ELSE IF ~exists(collection_path(kind)) THEN Decoded(<<>>)
    ELSE IF collection_path(kind) \notin DOMAIN fs THEN Failed("IoError")
    ELSE IF from_slice(kind, fs[collection_path(kind)]).status = "Ok"
    THEN from_slice(kind, fs[collection_path(kind)])
    ELSE Decoded(<<>>)

\* load_signatures / load_snippets as a function of the disk.
load(kind) ==
    IF ~pathsResolve THEN Failed("DirectoryUnavailable")
    ELSE IF ~exists(collection_path(kind)) THEN Decoded(<<>>)
    ELSE IF collection_path(kind) \notin DOMAIN fs THEN Failed("IoError")
    ELSE from_slice(kind, fs[collection_path(kind)])

\* The outcomes of save_signatures / save_snippets: the result and the disk
\* after it.
save(kind, coll) ==
    IF ~pathsResolve
    THEN {[status |-> "DirectoryUnavailable", files |-> fs, dirs |-> dirs]}
    ELSE LET path == collection_path(kind)
         IN  UNION {IF ~d.ok
                    THEN {[status |-> "IoError", files |-> fs, dirs |-> d.dirs]}
                    ELSE {[status |-> IF out.ok THEN "Ok" ELSE "IoError",
                           files |-> out.files, dirs |-> d.dirs] :
                             out \in fs_write(d.dirs, fs, path, to_vec(kind, coll))} :
                        d \in create_dir_all(dirs, fs, parent(path))}

\* Most elements of a collection.
MaxLen == 2

SnippetStrings == {<<>>, <<"a", QUOTE>>, <<BACKSLASH>>}

SignatureSamples ==
    {[id |-> <<"a">>, name |-> <<"n", QUOTE>>, mime |-> <<"p", "/", "g">>,
      bytes |-> <<0, 255>>, natural_w |-> U32_MAX, natural_h |-> <<"0">>],
     [id |-> <<"a">>, name |-> <<>>, mime |-> <<>>,
      bytes |-> <<>>, natural_w |-> <<"1">>, natural_h |-> <<"2", "0">>]}

Collections(kind) ==
    SeqsUpTo(IF kind = "snippets" THEN SnippetStrings ELSE SignatureSamples, MaxLen)

\* Contents that are JSON but no array, or an array of the wrong shape.
NotArraySamples ==
    {<<"{", "}">>, <<"n", "u", "l", "l">>, <<QUOTE, "a", QUOTE>>, <<"7">>, <<" ">>}

WrongShapeSamples ==
    {<<"[", "7", "]">>, <<"[", "{", "}", "]">>, <<"[", "n", "u", "l", "l", "]">>,
     <<"[", "]", "]">>, <<"[", "[", "]", "]">>}

\* The contents a collection file starts with: a saved collection, one cut
\* anywhere, or one of the samples.
InitialContents(kind) ==
    UNION {{to_vec(kind, c)} \cup StrictPrefixes(to_vec(kind, c)) : c \in Collections(kind)}
    \cup NotArraySamples \cup WrongShapeSamples

LoadCollection(kind) ==
    /\ focus = kind
    /\ loadResult' = [kind |-> kind, status |-> load(kind).status, value |-> load(kind).value]
    /\ UNCHANGED <<focus, saveResult, lastSaved, diskVars, sanVars, nameVars, exportVars,
                   raceVars, saverVars, bridgeVars>>

SaveCollection(kind) ==
    /\ focus = kind
    /\ \E coll \in Collections(kind) :
         \E out \in save(kind, coll) :
            /\ fs' = out.files
            /\ dirs' = out.dirs
            /\ saveResult' = out.status
            /\ lastSaved' = IF out.status = "Ok" THEN [known |-> TRUE, coll |-> coll]
                            ELSE IF out.files = fs THEN lastSaved
                            ELSE Unknown
            /\ loadResult' = NoLoad
    /\ UNCHANGED <<focus, pathsResolve, sanVars, nameVars, exportVars, raceVars, saverVars, bridgeVars>>

LoadSignatures == LoadCollection("signatures")

SaveSignatures == SaveCollection("signatures")

LoadSnippets == LoadCollection("snippets")

SaveSnippets == SaveCollection("snippets")

\* The application data directory is missing, or there with the collection
\* file missing, holding some content, or being a directory.
InitStore ==
    /\ focus \in Kinds
    /\ pathsResolve \in BOOLEAN
    /\ \/ dirs = {} /\ fs = <<>>
       \/ dirs = {APP_DATA} /\ fs = <<>>
       \/ dirs = {APP_DATA, collection_path(focus)} /\ fs = <<>>
       \/ /\ dirs = {APP_DATA}
          /\ \E content \in InitialContents(focus) :
                fs = [p \in {collection_path(focus)} |-> content]
    /\ loadResult = NoLoad
    /\ saveResult = NoStatus
    /\ lastSaved = Unknown
    /\ savers = <<>>
    /\ IdleSanitize /\ IdleNaming /\ IdleExport /\ IdleRace /\ IdleBridge

NextStore == LoadSignatures \/ SaveSignatures \/ LoadSnippets \/ SaveSnippets

SpecStore == InitStore /\ [][NextStore]_vars

----------------------------------------------------------------------------
(* save_signatures / save_snippets called by several callers at once:      *)
(* std::fs::write opens (and truncates) the file and then writes through   *)
(* its own handle, two system calls that another caller's can separate.    *)

Savers == {"s1", "s2"}

IdleSaver == [pc |-> "idle", coll |-> <<>>, bytes |-> <<>>, status |-> NoStatus, turn |-> 0]

\* The number of writes completed so far.
Writes == Cardinality({s \in Savers : savers[s].turn > 0})

\* Lines 80-85 (104-109): the path, create_dir_all, to_vec.
SaveBegin(s) ==
    /\ savers[s].pc = "idle"
    /\ \E coll \in Collections(focus) :
         IF ~pathsResolve
         THEN /\ savers' = [savers EXCEPT ![s] =
                     [@ EXCEPT !.pc = "done", !.coll = coll, !.status = "DirectoryUnavailable"]]
              /\ UNCHANGED dirs
         ELSE \E d \in create_dir_all(dirs, fs, parent(collection_path(focus))) :
                /\ dirs' = d.dirs
                /\ savers' = [savers EXCEPT ![s] =
                       IF d.ok
                       THEN [@ EXCEPT !.pc = "encoded", !.coll = coll,
                                      !.bytes = to_vec(focus, coll)]
                       ELSE [@ EXCEPT !.pc = "done", !.coll = coll, !.status = "IoError"]]
    /\ UNCHANGED <<fs, pathsResolve, storeVars, sanVars, nameVars, exportVars, raceVars,
                   bridgeVars>>

\* Line 86 (110), first half: File::create.
SaveOpen(s) ==
    /\ savers[s].pc = "encoded"
    /\ \/ /\ can_create(dirs, collection_path(focus))
          /\ fs' = file_create(fs, collection_path(focus))
          /\ savers' = [savers EXCEPT ![s] = [@ EXCEPT !.pc = "opened"]]
       \/ /\ fs' = fs
          /\ savers' = [savers EXCEPT ![s] = [@ EXCEPT !.pc = "done", !.status = "IoError"]]
    /\ UNCHANGED <<dirs, pathsResolve, storeVars, sanVars, nameVars, exportVars, raceVars,
                   bridgeVars>>

\* Line 86 (110), second half: write_all, in full or cut.
SaveWrite(s) ==
    /\ savers[s].pc = "opened"
    /\ \/ /\ fs' = write_at_start(fs, collection_path(focus), savers[s].bytes)
          /\ savers' = [savers EXCEPT ![s] =
                 [@ EXCEPT !.pc = "done", !.status = "Ok", !.turn = Writes + 1]]
       \/ \E q \in Cuts(savers[s].bytes) :
            /\ fs' = write_at_start(fs, collection_path(focus), q)
            /\ savers' = [savers EXCEPT ![s] =
                   [@ EXCEPT !.pc = "done", !.status = "IoError", !.turn = Writes + 1]]
    /\ UNCHANGED <<dirs, pathsResolve, storeVars, sanVars, nameVars, exportVars, raceVars,
                   bridgeVars>>

\* A load once every save has returned.
LoadAfterSaves ==
    /\ \A s \in Savers : savers[s].pc = "done"
    /\ loadResult = NoLoad
    /\ loadResult' = [kind |-> focus, status |-> load(focus).status, value |-> load(focus).value]
    /\ UNCHANGED <<focus, saveResult, lastSaved, savers, diskVars, sanVars, nameVars,
                   exportVars, raceVars, bridgeVars>>

InitSaveRace ==
    /\ focus \in Kinds
    /\ pathsResolve \in BOOLEAN
    /\ \/ dirs = {} /\ fs = <<>>
       \/ dirs = {APP_DATA} /\ fs = <<>>
       \/ /\ dirs = {APP_DATA}
          /\ \E c \in Collections(focus) :
                fs = [p \in {collection_path(focus)} |-> to_vec(focus, c)]
    /\ loadResult = NoLoad
    /\ saveResult = NoStatus
    /\ lastSaved = Unknown
    /\ savers = [s \in Savers |-> IdleSaver]
    /\ IdleSanitize /\ IdleNaming /\ IdleExport /\ IdleRace /\ IdleBridge

NextSaveRace ==
    \/ \E s \in Savers : SaveBegin(s) \/ SaveOpen(s) \/ SaveWrite(s)
    \/ LoadAfterSaves

SpecSaveRace == InitSaveRace /\ [][NextSaveRace]_vars

----------------------------------------------------------------------------
(* The file-open event bridge: is_pdf_path, emit_open_pdf and the run      *)
(* loop of main.                                                           *)

PDF == <<"p", "d", "f">>

\* An extension check that compares case-sensitively.
is_pdf_path_case_sensitive(path) ==
    IF extension(path) = None \/ to_str(extension(path)) = None THEN FALSE
    ELSE extension(path) = PDF

is_pdf_path(path) ==
    IF extension(path) = None \/ to_str(extension(path)) = None THEN FALSE
    ELSE eq_ignore_ascii_case(extension(path), PDF)

\* emit_open_pdf up to the emit: the payload's path, None when the
\* candidate is dropped.
open_pdf_payload(path) ==
    IF ~is_pdf_path(path) \/ ~exists(path) THEN None ELSE to_str(path)

\* A vector that keeps its elements when iterated.
drain_keeps(paths) == paths

\* What initial_paths.drain(..) leaves in the vector.
drain(paths) == <<>>

\* std::env::args_os().skip(1)
args_skip1(argv) == Tail(argv)

\* Url::to_file_path: the path of a file URL, None for another scheme.
to_file_path(url) == IF url.scheme = "file" THEN url.path ELSE None

InDownloads(name) == join(DOWNLOADS, name)

A_PDF == InDownloads(<<"a">> \o DOT_PDF)
A_UPPER_PDF == InDownloads(<<"A", ".", "P", "D", "F">>)
A_TXT == InDownloads(<<"a", ".", "t", "x", "t">>)
HIDDEN_PDF == InDownloads(DOT_PDF)
NON_UTF8_PDF == InDownloads(<<NonUtf8>> \o DOT_PDF)
MISSING_PDF == InDownloads(<<"n", "o">> \o DOT_PDF)
DIR_PDF == InDownloads(<<"d", "i", "r">> \o DOT_PDF)
PROGRAM == InDownloads(<<"a", "p", "p">> \o DOT_PDF)

\* The files and directories of the bridge's runs; MISSING_PDF is not there.
BridgeFiles == {A_PDF, A_UPPER_PDF, A_TXT, HIDDEN_PDF, NON_UTF8_PDF, PROGRAM}
BridgeDirs == {DOWNLOADS, DIR_PDF}

\* The launch arguments after the program name.
LaunchVectors ==
    {<<>>, <<A_PDF>>, <<A_TXT, MISSING_PDF, A_UPPER_PDF>>, <<A_PDF, A_PDF>>,
     <<HIDDEN_PDF, NON_UTF8_PDF, DIR_PDF \o <<SEP>>, DIR_PDF>>,
     <<A_UPPER_PDF, A_PDF, MISSING_PDF>>}

FileUrl(path) == [scheme |-> "file", path |-> path]

\* The URL lists of the Opened events.
OpenedBatches ==
    {<<FileUrl(A_PDF)>>,
     <<[scheme |-> "https", path |-> A_PDF], FileUrl(A_UPPER_PDF), FileUrl(A_TXT)>>,
     <<FileUrl(HIDDEN_PDF), FileUrl(MISSING_PDF)>>}

\* Most run events handled in one run.
MaxEvents == 3

\* The candidates of `paths` that emit_open_pdf emits for.
Forwarded(paths) == SelectSeq(paths, LAMBDA p : open_pdf_payload(p) # None)

\* emit_open_pdf on each path in order; fails[i] tells whether the i-th
\* emit returns Err, which is logged and nothing more.
EmitEach(paths, source, fails) ==
    LET sent == Forwarded(paths)
        calls == [i \in 1..Len(sent) |->
                    [path |-> open_pdf_payload(sent[i]), source |-> source,
                     delivered |-> ~fails[i]]]
        failed == SelectSeq(calls, LAMBDA c : ~c.delivered)
    IN  /\ handed' = handed \o [i \in 1..Len(paths) |-> [path |-> paths[i], source |-> source]]
        /\ notifications' = notifications \o calls
        /\ stderr' = stderr \o [i \in 1..Len(failed) |-> failed[i].path]

\* RunEvent::Ready
HandleReady ==
    /\ Len(events) < MaxEvents
    /\ \E fails \in [1..Len(Forwarded(initial_paths)) -> BOOLEAN] :
          EmitEach(initial_paths, "args", fails)
    /\ initial_paths' = drain(initial_paths)
    /\ events' = Append(events, "Ready")
    /\ UNCHANGED <<platform, launchArgs, diskVars, sanVars, nameVars, exportVars, raceVars,
                   storeVars, saverVars>>

\* RunEvent::Opened { urls }, an arm of the macOS and iOS builds.
HandleOpened ==
    /\ Len(events) < MaxEvents
    /\ platform = "macos"
    /\ \E urls \in OpenedBatches :
         LET files == SelectSeq(urls, LAMBDA u : to_file_path(u) # None)
             paths == [i \in 1..Len(files) |-> to_file_path(files[i])]
         IN  \E fails \in [1..Len(Forwarded(paths)) -> BOOLEAN] :
                EmitEach(paths, "opened", fails)
    /\ events' = Append(events, "Opened")
    /\ UNCHANGED <<platform, launchArgs, initial_paths, diskVars, sanVars, nameVars,
                   exportVars, raceVars, storeVars, saverVars>>

\* Every other run event: the arm `_ => {}`.
HandleOther ==
    /\ Len(events) < MaxEvents
    /\ events' = Append(events, "Other")
    /\ UNCHANGED <<platform, launchArgs, initial_paths, handed, notifications, stderr,
                   diskVars, sanVars, nameVars, exportVars, raceVars, storeVars, saverVars>>

\* main() up to app.run: the arguments are collected.
InitBridge ==
    /\ platform \in {"macos", "other"}
    /\ \E v \in LaunchVectors : launchArgs = <<PROGRAM>> \o v
    /\ initial_paths = args_skip1(launchArgs)
    /\ handed = <<>>
    /\ notifications = <<>>
    /\ stderr = <<>>
    /\ events = <<>>
    /\ fs = [p \in BridgeFiles |-> OLD]
    /\ dirs = BridgeDirs
    /\ pathsResolve = TRUE
    /\ IdleSanitize /\ IdleNaming /\ IdleExport /\ IdleRace /\ IdleStore

NextBridge == HandleReady \/ HandleOpened \/ HandleOther

SpecBridge == InitBridge /\ [][NextBridge]_vars

----------------------------------------------------------------------------
(* Properties.                                                             *)

Last(q) == q[Len(q)]

HasSeparator(s) == Positions(s, SEP) # {}

EndsInPdf(s) == ends_with(to_lowercase(s), DOT_PDF)

\* C6: sanitize_file_name returns, for every input, a name without a path
\* separator that is a direct child of the directory it is joined to and
\* ends in .pdf, case-insensitively; the final component of the input is
\* kept as it is when it ends in .pdf in any letter case and gets .pdf
\* appended otherwise; an input without a final file name (empty, or ending
\* in ..) gives document-signed.pdf.
C6_SanitizeFileName ==
    sanitized # None =>
        /\ ~HasSeparator(sanitized)
        /\ Components(join(DOWNLOADS, sanitized))
             = Components(DOWNLOADS) \o <<[kind |-> "Normal", name |-> sanitized]>>
        /\ parent(join(DOWNLOADS, sanitized)) = DOWNLOADS
        /\ EndsInPdf(sanitized)
        /\ \E seg \in {Segments(raw)[i] : i \in 1..Len(Segments(raw))} \cup {DEFAULT_NAME} :
               sanitized = IF EndsInPdf(seg) THEN seg ELSE seg \o DOT_PDF
        /\ (~HasSeparator(raw) /\ raw \notin {<<>>, <<DOT>>, <<DOT, DOT>>}) =>
               sanitized = IF EndsInPdf(raw) THEN raw ELSE raw \o DOT_PDF
        /\ (raw = <<>> \/ raw = <<DOT, DOT>> \/ ends_with(raw, <<SEP, DOT, DOT>>)) =>
               sanitized = DEFAULT_NAME
        /\ raw = TRAVERSAL => sanitized = PASSWD_PDF
        /\ raw = REPORT_UPPER => sanitized = REPORT_UPPER

\* The suffix check met an upper-case .PDF, and a traversal was stripped.
C6_Witness ==
    \/ raw = REPORT_UPPER /\ sanitized = REPORT_UPPER
    \/ raw = TRAVERSAL /\ sanitized = PASSWD_PDF

\* C4: next_available_path returns dir/name when it is free, otherwise the
\* numbered candidate "stem (k).ext" with the least free k in 1..999, and
\* dir/"stem-export.ext" only when dir/name and all 999 candidates exist; it
\* changes nothing on disk.
C4_Result ==
    chosen # None =>
        LET initial == DOWNLOADS \o <<SEP>> \o reqName
            numbered(k) == DOWNLOADS \o <<SEP>> \o StemOf(reqName) \o <<" ", "(">>
                               \o Decimal(k) \o <<")", ".">> \o ExtOf(reqName)
            taken(k) == numbered(k) \in DOMAIN fs
            all == 1..999
        IN  /\ initial \notin DOMAIN fs => chosen = initial
            /\ initial \in DOMAIN fs =>
                 IF \E k \in all : chosen = numbered(k)
                 THEN LET k == CHOOSE k \in all : chosen = numbered(k)
                      IN  ~taken(k) /\ \A j \in 1..(k - 1) : taken(j)
                 ELSE /\ \A k \in all : taken(k)
                      /\ chosen = DOWNLOADS \o <<SEP>> \o StemOf(reqName)
                                     \o <<"-", "e", "x", "p", "o", "r", "t", ".">>
                                     \o ExtOf(reqName)
            /\ (reqName = DOC_PDF /\ DOMAIN fs = {join(DOWNLOADS, DOC_PDF)}) =>
                 chosen = join(DOWNLOADS, DOC_1_PDF)
            /\ (reqName = DOC_PDF
                /\ DOMAIN fs = {join(DOWNLOADS, DOC_PDF), join(DOWNLOADS, DOC_1_PDF)}) =>
                 chosen = join(DOWNLOADS, DOC_2_PDF)

\* C4: the result of next_available_path is as C4_Result states after every
\* call, and the call creates, changes and deletes no file or directory.
C4_NextAvailablePath ==
    /\ []C4_Result
    /\ [][chosen' # chosen => fs' = fs /\ dirs' = dirs]_vars

\* All 999 numbered candidates were taken and the fallback was returned.
C4_Witness ==
    /\ reqName = DOC_PDF
    /\ chosen = join(DOWNLOADS, DOC_EXPORT_PDF)
    /\ Cardinality(DOMAIN fs) >= 1000

\* Every file present before a step is present, with the same content, after.
KeepsFiles == \A p \in DOMAIN fs : p \in DOMAIN fs' /\ fs'[p] = fs[p]

\* Every successful export from index i on whose later exports satisfy keep
\* is on disk with its own bytes.
Exported(keep(_)) ==
    \A i \in 1..Len(exportLog) :
        (exportLog[i].status = "Ok" /\ \A j \in (i + 1)..Len(exportLog) : keep(exportLog[j])) =>
            /\ exportLog[i].path \in DOMAIN fs
            /\ fs[exportLog[i].path] = exportLog[i].bytes

\* C5 as stated: for every directory content and every desired name, the
\* path save_pdf_to_downloads writes did not exist before the call, every
\* file that existed keeps its content, and every exported document stays on
\* disk with its own bytes.
C5_NeverOverwrites ==
    /\ [][exportLog' # exportLog =>
            /\ KeepsFiles
            /\ Last(exportLog').path # None => Last(exportLog').path \notin DOMAIN fs]_vars
    /\ []Exported(LAMBDA e : TRUE)

\* C5, amended: the same, for the calls that find dir/name or one of its 999
\* numbered candidates free; an exported document stays on disk with its own
\* bytes as long as no later call found all 1000 names taken.
C5_NoOverwriteWhenFree ==
    /\ [][(exportLog' # exportLog /\ Last(exportLog').free) =>
            /\ KeepsFiles
            /\ Last(exportLog').path # None => Last(exportLog').path \notin DOMAIN fs]_vars
    /\ []Exported(LAMBDA e : e.free)

\* Two exports under the same sanitized name, both on disk with their bytes,
\* in a directory that already held the name.
C5_Witness ==
    /\ Len(exportLog) = 2
    /\ exportLog[1].status = "Ok" /\ exportLog[2].status = "Ok"
    /\ exportLog[1].path = join(DOWNLOADS, DOC_1_PDF)
    /\ exportLog[2].path = join(DOWNLOADS, DOC_2_PDF)
    /\ exportLog[1].bytes # exportLog[2].bytes
    /\ fs[join(DOWNLOADS, DOC_PDF)] = OLD

\* A write step of caller e that replaced an existing file.
Overwrites(e) ==
    /\ racers[e].pc = "checked"
    /\ racers'[e].pc = "done"
    /\ racers'[e].overwrote

\* C8 as stated: an export whose probe and write are not separated by
\* another write never replaces an existing file, while two interleaved
\* exports can.
C8_OverwriteOnlyWhenInterleaved ==
    [][\A e \in Exporters : Overwrites(e) => racers[e].disturbed]_vars

\* C8, amended: an export whose probe found a free name and whose probe and
\* write are not separated by another write never replaces an existing file;
\* two interleaved exports can pick the same path, and the later write then
\* replaces the file the earlier one created.
C8_OverwriteOnlyWhenInterleavedOrFull ==
    [][\A e \in Exporters : (Overwrites(e) /\ racers[e].free) => racers[e].disturbed]_vars

\* Both callers probed the same free path, both wrote and returned Ok, and
\* the file holds the bytes of one of them only.
C8_Witness ==
    \E e, x \in Exporters :
        /\ e # x
        /\ racers[e].status = "Ok" /\ racers[x].status = "Ok"
        /\ racers[e].free /\ racers[x].free
        /\ racers[e].target = racers[x].target
        /\ racers[e].bytes # racers[x].bytes
        /\ racers[x].overwrote /\ racers[x].disturbed
        /\ fs[racers[x].target] = racers[x].bytes

\* The caller whose write came last.
LastWriter == CHOOSE s \in Savers : \A x \in Savers : savers[x].turn <= savers[s].turn

\* C9: once two racing saves of one collection have both returned success,
\* a load returns exactly the collection of the save whose write happened
\* last.
C9_LastWriterWins ==
    (loadResult.kind = focus /\ \A s \in Savers : savers[s].status = "Ok") =>
        /\ loadResult.status = "Ok"
        /\ loadResult.value = savers[LastWriter].coll

Loaded == loadResult.kind # "none"

\* Whether the step is a load, and then whether it left the disk alone.
LoadLeavesDisk ==
    (loadResult' # loadResult /\ loadResult'.kind # "none") => (fs' = fs /\ dirs' = dirs)

\* C1: a load that follows a successful save of a collection, with no write
\* in between, returns that collection: same elements, order and duplicates,
\* whatever was saved or stored before.
C1_LoadReturnsLastSaved ==
    (Loaded /\ lastSaved.known) =>
        /\ loadResult.status = "Ok"
        /\ loadResult.value = lastSaved.coll

\* A non-empty file was replaced by the save of a collection with twice the
\* same element, and the load returned it.
C1_Witness ==
    /\ Loaded
    /\ lastSaved.known
    /\ Len(loadResult.value) = 2
    /\ loadResult.value[1] = loadResult.value[2]
    /\ loadResult.value = lastSaved.coll

\* C2: with the application data directory resolved and nothing at the
\* collection's path, a load returns the empty collection as a success, and
\* no load changes a file or a directory.
C2_MissingFileLoadsEmpty ==
    /\ [](Loaded /\ pathsResolve /\ ~exists(collection_path(focus)) =>
             /\ loadResult.status = "Ok"
             /\ loadResult.value = <<>>)
    /\ [][LoadLeavesDisk]_vars

\* A load ran with no data directory at all, returned the empty collection
\* and the directory is still missing.
C2_Witness ==
    /\ Loaded
    /\ pathsResolve
    /\ dirs = {}
    /\ fs = <<>>
    /\ loadResult.status = "Ok"
    /\ loadResult.value = <<>>

\* A content cut before its end.
Truncated(kind, content) ==
    \E c \in Collections(kind) : content \in StrictPrefixes(to_vec(kind, c))

\* A content whose first character after the white space opens no array.
NotAnArray(content) ==
    SkipWs(content, 1) > Len(content) \/ content[SkipWs(content, 1)] # "["

\* C3: a load of a collection file whose content is truncated, is no array
\* or is an array of the wrong shape returns a decode error, never a
\* collection, and leaves the file as it is.
C3_CorruptFileIsDecodeError ==
    /\ [](Loaded /\ pathsResolve /\ collection_path(focus) \in DOMAIN fs =>
            LET content == fs[collection_path(focus)]
            IN  (Truncated(focus, content) \/ NotAnArray(content)
                   \/ content \in WrongShapeSamples) =>
                    /\ loadResult.status = "DecodeError"
                    /\ loadResult.status # "Ok")
    /\ [][(loadResult' # loadResult /\ loadResult'.status = "DecodeError") =>
            (fs' = fs /\ dirs' = dirs)]_vars

\* A load of a file cut after at least two characters returned a decode
\* error.
C3_Witness ==
    /\ Loaded
    /\ collection_path(focus) \in DOMAIN fs
    /\ Truncated(focus, fs[collection_path(focus)])
    /\ Len(fs[collection_path(focus)]) >= 2
    /\ loadResult.status = "DecodeError"

PathsOf(log) == [i \in 1..Len(log) |-> log[i].path]

\* C7 as stated: the candidates handed to emit_open_pdf that are notified,
\* each once and in order, are those that end in .pdf, case-insensitively,
\* and exist.
C7_NotifiedIffEndsInPdfAndExists ==
    PathsOf(notifications)
        = SelectSeq(PathsOf(handed), LAMBDA p : EndsInPdf(p) /\ exists(p))

\* Whether the final component of p is a name of at least one character
\* followed by .pdf in any letter case.
FinalComponentIsPdf(p) ==
    /\ file_name(p) # None
    /\ EndsInPdf(file_name(p))
    /\ Len(file_name(p)) > Len(DOT_PDF)

IsUtf8(p) == \A i \in 1..Len(p) : p[i] # NonUtf8

\* C7, amended: the candidates handed to emit_open_pdf that are notified,
\* each once and in order, are those whose final component has the
\* extension pdf, case-insensitively (a name before the suffix: the file
\* named just ".pdf" has no extension), that exist and that are valid
\* UTF-8.
C7_NotifiedIffPdfExtensionAndExists ==
    /\ PathsOf(notifications)
         = SelectSeq(PathsOf(handed),
                     LAMBDA p : FinalComponentIsPdf(p) /\ exists(p) /\ IsUtf8(p))
    /\ \A i \in 1..Len(notifications) :
          notifications[i].source \in {"args", "opened"}

\* An existing .txt and a missing .pdf were dropped and an existing .PDF
\* was notified.
C7_Witness ==
    /\ \E i \in 1..Len(handed) : handed[i].path = A_TXT
    /\ \E i \in 1..Len(handed) : handed[i].path = MISSING_PDF
    /\ PathsOf(notifications) = <<A_UPPER_PDF>>

Count(log, word) == Len(SelectSeq(log, LAMBDA e : e = word))

FromArgs(log) == SelectSeq(log, LAMBDA e : e.source = "args")

\* C10: the launch arguments, the program name excluded, are handed to
\* emit_open_pdf at the first Ready event and at no other event, in argument
\* order and once each; the list is empty from then on; an emit that fails
\* is logged once, is not repeated, and the candidates after it are
\* processed.
C10_StartupOnce ==
    LET arguments == Tail(launchArgs)
    IN  /\ Count(events, "Ready") = 0 =>
              /\ initial_paths = arguments
              /\ FromArgs(handed) = <<>>
              /\ FromArgs(notifications) = <<>>
        /\ Count(events, "Ready") >= 1 =>
              /\ initial_paths = <<>>
              /\ PathsOf(FromArgs(handed)) = arguments
              /\ PathsOf(FromArgs(notifications))
                    = SelectSeq(arguments, LAMBDA p : open_pdf_payload(p) # None)
        /\ stderr = PathsOf(SelectSeq(notifications, LAMBDA c : ~c.delivered))

\* Two Ready events were handled; the first startup emit failed and the
\* second startup candidate was still notified.
C10_Witness ==
    /\ Count(events, "Ready") >= 2
    /\ Len(FromArgs(notifications)) = 2
    /\ ~FromArgs(notifications)[1].delivered
    /\ FromArgs(notifications)[2].delivered
    /\ Len(stderr) = 1

====
